---- MODULE Spec2Model ----
(***************************************************************************)
(* Model of the generated client stub Hello                                *)
(* (examples/go/hello-client/bindings/wrpc_examples/hello/handler/         *)
(* bindings.wrpc.go): one invocation of the zero-argument remote function  *)
(* `hello`, the close of the outgoing parameter stream, the decoding of    *)
(* the varint length prefix and the string body from the incoming stream,  *)
(* and the deferred close of the incoming stream.                          *)
(*                                                                         *)
(* The two streams are values of interfaces (wrpc.IndexWriteCloser,        *)
(* wrpc.IndexReadCloser; io.ByteReader and io.Reader for the decoder):     *)
(* what a call on them returns is chosen by the environment among the      *)
(* outcomes the interface permits.  The bytes the incoming stream hands    *)
(* out are recorded as they are read.                                      *)
(***************************************************************************)
EXTENDS Integers, Sequences, FiniteSets, TLC

\* ------------------------------------------------------------------ bounds

\* Longest body a single Read delivers in the model.
MaxBody == 2

\* Bytes ReadByte may deliver: terminating bytes (high bit clear) and
\* continuation bytes (high bit set).
LenBytes == {0, 1, 2, 15, 16, 127, 128, 255}

\* Bytes Read may deliver into the body buffer: ASCII 'h', a lone UTF-8
\* continuation byte, and the two bytes of U+00E9.
BodyBytes == {104, 128, 195, 169}

\* Failures a read on the incoming stream may report.
EOF == "EOF"
ErrUnexpectedEOF == "unexpected EOF"
Canceled == "context canceled"
NoErr == "nil"
ReadErrs == {EOF, Canceled}

\* ------------------------------------------------------------ uint32, uint8

\* A uint32 is its two 16-bit halves: 2^32-1 does not fit the model
\* checker's integers.
Half == 65536
Pow2(n) == 2 ^ n
BitOf(n, k) == (n \div Pow2(k)) % 2
U32Zero == [hi |-> 0, lo |-> 0]
U32Max == [hi |-> Half - 1, lo |-> Half - 1]
\* uint32(b) for a byte b
U32FromByte(b) == [hi |-> 0, lo |-> b]
\* v << sh on uint32: bits shifted past bit 31 are lost
U32Shl(v, sh) ==
  IF sh < 16
  THEN [hi |-> (v.hi * Pow2(sh) + (v.lo * Pow2(sh)) \div Half) % Half,
        lo |-> (v.lo * Pow2(sh)) % Half]
  ELSE IF sh < 32
  THEN [hi |-> (v.lo * Pow2(sh - 16)) % Half, lo |-> 0]
  ELSE U32Zero
\* m | n on 16-bit halves
RECURSIVE Or16(_, _, _)
Or16(m, n, k) ==
  IF k > 15 THEN 0
  ELSE (IF BitOf(m, k) = 1 \/ BitOf(n, k) = 1 THEN Pow2(k) ELSE 0) + Or16(m, n, k + 1)
\* v | w on uint32
U32Or(v, w) == [hi |-> Or16(v.hi, w.hi, 0), lo |-> Or16(v.lo, w.lo, 0)]
\* b & 0x7f on a byte
And7f(b) == b % 128

\* min(v, n) for a uint32 v and a natural n below 2^16
U32Min(v, n) == IF v.hi > 0 \/ v.lo >= n THEN n ELSE v.lo
\* v = n for a uint32 v and a natural n below 2^16
U32Is(v, n) == v.hi = 0 /\ v.lo = n
\* the uint32 of a natural below 2^31
U32FromNat(n) == [hi |-> n \div Half, lo |-> n % Half]

\* ------------------------------------------------------------------ errors

\* An error is its chain of messages, outermost first; the nil error is empty.
Nil == <<>>
\* fmt.Errorf("<msg>: %w", e)
Wrapf(msg, e) == <<msg>> \o e
\* errors.New(msg)
NewError(msg) == <<msg>>

\* "failed to invoke `hello`: %w" (the string is written here without its quotes)
MsgInvoke == "failed to invoke hello"
MsgResult0 == "failed to read result 0"
MsgLenByte == "failed to read string length byte"
MsgOverflow == "string length overflows a 32-bit integer"
MsgBody == "failed to read string bytes"
MsgUtf8 == "string is not valid UTF-8"
InvokeFailure == "invoke error"

\* ------------------------------------------------------- buffers and strings

\* A byte slice of length len (a uint32) whose first Len(data) bytes are data
\* and whose other bytes are the zeroes make() put there.  A string has the
\* same shape.
EmptyString == [len |-> U32Zero, data |-> <<>>]
\* make([]byte, x)
MakeBuf(v) == [len |-> v, data |-> <<>>]
\* the buffer after r.Read(buf) stored d in its first bytes
Filled(b, d) == [len |-> b.len, data |-> d]
\* whether all of the slice's bytes are in data
IsFull(b) == U32Is(b.len, Len(b.data))
\* enough of the slice's bytes to decide its validity: after the bytes read,
\* the zero bytes are all alike
Shown(b) == IF IsFull(b) THEN b.data ELSE Append(b.data, 0)

InRange(c, lo, hi) == lo <= c /\ c <= hi
\* size of the UTF-8 sequence a lead byte starts, 0 for a byte that starts none
SeqSize(c) ==
  IF InRange(c, 194, 223) THEN 2
  ELSE IF InRange(c, 224, 239) THEN 3
  ELSE IF InRange(c, 240, 244) THEN 4
  ELSE 0
\* lowest and highest second byte a lead byte accepts
AcceptLo(c) == IF c = 224 THEN 160 ELSE IF c = 240 THEN 144 ELSE 128
AcceptHi(c) == IF c = 237 THEN 159 ELSE IF c = 244 THEN 143 ELSE 191

RECURSIVE ValidFrom(_, _)
ValidFrom(bs, k) ==
  IF k > Len(bs) THEN TRUE
  ELSE IF bs[k] < 128 THEN ValidFrom(bs, k + 1)
  ELSE LET size == SeqSize(bs[k]) IN
       /\ size > 0
       /\ k + size - 1 <= Len(bs)
       /\ InRange(bs[k + 1], AcceptLo(bs[k]), AcceptHi(bs[k]))
       /\ \A j \in (k + 2)..(k + size - 1) : InRange(bs[j], 128, 191)
       /\ ValidFrom(bs, k + size)
\* utf8.Valid(buf)
Utf8Valid(b) == ValidFrom(Shown(b), 1)

\* ------------------------------------------------------- the decoder's steps

\* the bound of the length loop: for i := 0; i < 5; i++
MaxLenBytes == 5

\* variant: the cause is passed on as it is, end-of-data included
LenByteCauseAsIs(iter, e) == e
\* variant: every cause is replaced after the first byte
LenByteCauseAnyCause(iter, e) == IF iter > 0 THEN ErrUnexpectedEOF ELSE e
\* variant: end-of-data is replaced at the first byte too
LenByteCauseAnyIter(iter, e) == IF e = EOF THEN ErrUnexpectedEOF ELSE e
\* if i > 0 && err == io.EOF { err = io.ErrUnexpectedEOF }
LenByteCause(iter, e) == IF iter > 0 /\ e = EOF THEN ErrUnexpectedEOF ELSE e
\* variant: only a continuation byte overflows at shift 28
OverflowsOnMoreOnly(sh, b) == sh = 28 /\ b > 127
\* variant: the payload bits, not the byte, are compared
OverflowsOnPayload(sh, b) == sh = 28 /\ And7f(b) > 15
\* if s == 28 && b > 0x0f
Overflows(sh, b) == sh = 28 /\ b > 15
\* b < 0x80: the byte ends the length
IsLast(b) == b < 128
\* variant: the loop has neither the overflow test nor the bound
LenByteOutcomeUnbounded(iter, sh, b) == IF IsLast(b) THEN "last" ELSE "more"
\* variant: a zero byte after a continuation byte is refused
LenByteOutcomeMinimal(iter, sh, b) ==
  IF Overflows(sh, b) \/ (iter > 0 /\ b = 0) THEN "overflow"
  ELSE IF IsLast(b) THEN "last"
  ELSE IF iter + 1 < MaxLenBytes THEN "more"
  ELSE "exhausted"
\* what the loop body does with a byte read at iteration iter and shift sh:
\* the overflow return of line 46, the decoding of the body after a last
\* byte, another iteration, or the end of the loop (i < 5 false, line 64)
LenByteOutcome(iter, sh, b) ==
  IF Overflows(sh, b) THEN "overflow"
  ELSE IF IsLast(b) THEN "last"
  ELSE IF iter + 1 < MaxLenBytes THEN "more"
  ELSE "exhausted"
\* x = x | uint32(b)<<s
FoldLast(acc, b, sh) == U32Or(acc, U32Shl(U32FromByte(b), sh))
\* variant: the continuation bit is not masked off
FoldMoreUnmasked(acc, b, sh) == U32Or(acc, U32Shl(U32FromByte(b), sh))
\* x |= uint32(b&0x7f) << s
FoldMore(acc, b, sh) == U32Or(acc, U32Shl(U32FromByte(And7f(b)), sh))
\* variant: the shift advances by a whole byte
NextShiftByEight(sh) == (sh + 8) % 256
\* s += 7 on a uint8
NextShift(sh) == (sh + 7) % 256
\* variant: a failed read returns what it read
BodyFailStringRaw(b) == b
\* return "", fmt.Errorf("failed to read string bytes: %w", err)
BodyFailString(b) == EmptyString
\* variant: invalid bytes are not returned
InvalidStringDropped(b) == EmptyString
\* return string(buf), errors.New("string is not valid UTF-8")
InvalidString(b) == b
\* variant: the decoded bytes are not returned
ValidStringDropped(b) == EmptyString
\* return string(buf), nil
ValidString(b) == b
\* if err != nil after r.Read(buf)
BodyReadFailed(n, e) == e # NoErr
\* variant: a failed close of the outgoing stream ends the call
OutgoingCloseNextEscalated(failed) == IF failed THEN "closeR" ELSE "loop"
\* where Hello goes once w__.Close() returned: its error is logged only
OutgoingCloseNext(failed) == "loop"
\* variant: the deferred close is registered before the error test
InvokeNextCloses(ok) == IF ok THEN "closeW" ELSE "closeR"
\* variant: the outgoing stream is left open
InvokeNextNoClose(ok) == IF ok THEN "loop" ELSE "done"
\* where Hello goes once Invoke returned: the return of line 20, or on
InvokeNext(ok) == IF ok THEN "closeW" ELSE "done"
\* variant: the incoming stream is closed on the successful return only
ReturnNextOnSuccess(e) == IF e = Nil THEN "closeR" ELSE "done"
\* where Hello goes once the decoder returned: the deferred r__.Close() runs
\* on both returns (lines 68 and 70)
ReturnNext(e) == "closeR"
\* err__ = fmt.Errorf("failed to read result 0: %w", err__) if err__ != nil
ResultErr(e) == IF e # Nil THEN Wrapf(MsgResult0, e) ELSE e

\* -------------------------------------------------------------------- state

VARIABLES
  pc,        \* where Hello is: "start", "closeW", "loop", "body", "ret", "closeR", "done"
  i,         \* the loop counter of the length loop
  s,         \* var s uint8: the shift
  x,         \* var x uint32: the length accumulated
  buf,       \* the body buffer
  r0,        \* r0__: the string Hello returns
  err,       \* err__: the error Hello returns
  calls,     \* the calls made on the invoker and the two streams, in order
  rdBytes,   \* the bytes ReadByte delivered, in order
  readN,     \* the count the body Read returned, -1 before it
  readErr,   \* the error the body Read returned
  eod,       \* whether the incoming stream is known to hold no more bytes
  wCloseErr, \* whether w__.Close() returned an error
  rCloseErr, \* whether r__.Close() returned an error
  rbErr,     \* the error the last ReadByte returned
  exit       \* the return statement taken, "none" before it

vars == <<pc, i, s, x, buf, r0, err, calls, rdBytes, readN, readErr, eod,
          wCloseErr, rCloseErr, rbErr, exit>>

\* all sequences over S of length at most n
SeqsUpTo(S, n) == UNION {[1..k -> S] : k \in 0..n}

Init ==
  /\ pc = "start"
  /\ i = 0
  /\ s = 0
  /\ x = U32Zero
  /\ buf = MakeBuf(U32Zero)
  /\ r0 = EmptyString
  /\ err = Nil
  /\ calls = <<>>
  /\ rdBytes = <<>>
  /\ readN = -1
  /\ readErr = NoErr
  /\ eod = FALSE
  /\ wCloseErr = FALSE
  /\ rCloseErr = FALSE
  /\ rbErr = NoErr
  /\ exit = "none"

\* w__, r__, err__ = wrpc__.Invoke(...); on failure wrap and return
Invoke ==
  /\ pc = "start"
  /\ \E ok \in BOOLEAN :
       /\ err' = IF ok THEN Nil ELSE Wrapf(MsgInvoke, NewError(InvokeFailure))
       /\ pc' = InvokeNext(ok)
       /\ exit' = IF ok THEN "none" ELSE "invoke"
  /\ calls' = Append(calls, "Invoke")
  /\ UNCHANGED <<i, s, x, buf, r0, rdBytes, readN, readErr, eod, wCloseErr, rCloseErr, rbErr>>

\* if cErr__ := w__.Close(); cErr__ != nil { slog.DebugContext(...) }
CloseOutgoing ==
  /\ pc = "closeW"
  /\ \E failed \in BOOLEAN :
       /\ wCloseErr' = failed
       /\ pc' = OutgoingCloseNext(failed)
  /\ calls' = Append(calls, "w.Close")
  /\ UNCHANGED <<i, s, x, buf, r0, err, rdBytes, readN, readErr, eod, rCloseErr, rbErr, exit>>

\* what one ReadByte may return: a byte with no error, or an error
ReadByteResults == [b : LenBytes, e : {NoErr}] \cup [b : {0}, e : ReadErrs]

\* one iteration of the length loop: ReadByte, the overflow test, and the
\* fold of the byte; a last byte also allocates the body buffer
ReadLengthByte ==
  /\ pc = "loop"
  /\ \E res \in ReadByteResults :
       /\ rdBytes' = IF res.e = NoErr THEN Append(rdBytes, res.b) ELSE rdBytes
       /\ eod' = (res.e = EOF)
       /\ rbErr' = res.e
       /\ IF res.e # NoErr
          THEN /\ r0' = EmptyString
               /\ err' = Wrapf(MsgLenByte, NewError(LenByteCause(i, res.e)))
               /\ pc' = "ret"
               /\ exit' = "lenbyte"
               /\ UNCHANGED <<i, s, x, buf>>
          ELSE LET outcome == LenByteOutcome(i, s, res.b) IN
          IF outcome = "overflow"
          THEN /\ r0' = EmptyString
               /\ err' = NewError(MsgOverflow)
               /\ pc' = "ret"
               /\ exit' = "overflow"
               /\ UNCHANGED <<i, s, x, buf>>
          ELSE IF outcome = "last"
          THEN /\ x' = FoldLast(x, res.b, s)
               /\ buf' = MakeBuf(x')
               /\ pc' = "body"
               /\ UNCHANGED <<i, s, r0, err, exit>>
          ELSE /\ x' = FoldMore(x, res.b, s)
               /\ s' = NextShift(s)
               /\ i' = i + 1
               /\ IF outcome = "more"
                  THEN /\ pc' = "loop"
                       /\ UNCHANGED <<r0, err, exit>>
                  ELSE /\ r0' = EmptyString
                       /\ err' = NewError(MsgOverflow)
                       /\ pc' = "ret"
                       /\ exit' = "fallthrough"
               /\ UNCHANGED buf
  /\ calls' = Append(calls, "r.ReadByte")
  /\ UNCHANGED <<readN, readErr, wCloseErr, rCloseErr>>

\* what one Read into a buffer of length v may return: the bytes it stored
\* (no more than the buffer holds), whether the stream ended with them, and
\* an error or none; end-of-data is reported only by a stream that ended
ReadResults(v) ==
  {res \in [data : SeqsUpTo(BodyBytes, U32Min(v, MaxBody)), end : BOOLEAN,
            e : {NoErr} \cup ReadErrs] : res.e = EOF => res.end}

\* _, err = r.Read(buf), the UTF-8 validation, and the decoder's return
ReadBody ==
  /\ pc = "body"
  /\ \E res \in ReadResults(x) :
       /\ buf' = Filled(buf, res.data)
       /\ readN' = Len(res.data)
       /\ readErr' = res.e
       /\ eod' = res.end
       /\ IF BodyReadFailed(Len(res.data), res.e)
          THEN /\ r0' = BodyFailString(buf')
               /\ err' = Wrapf(MsgBody, NewError(res.e))
               /\ exit' = "body"
          ELSE IF ~Utf8Valid(buf')
          THEN /\ r0' = InvalidString(buf')
               /\ err' = NewError(MsgUtf8)
               /\ exit' = "utf8"
          ELSE /\ r0' = ValidString(buf')
               /\ err' = Nil
               /\ exit' = "ok"
  /\ calls' = Append(calls, "r.Read")
  /\ pc' = "ret"
  /\ UNCHANGED <<i, s, x, rdBytes, wCloseErr, rCloseErr, rbErr>>

\* r0__, err__ = func(...)(r__); the wrap of a decoding error; return
ReturnResult ==
  /\ pc = "ret"
  /\ err' = ResultErr(err)
  /\ pc' = ReturnNext(err)
  /\ UNCHANGED <<i, s, x, buf, r0, calls, rdBytes, readN, readErr, eod, wCloseErr, rCloseErr,
                 rbErr, exit>>

\* defer func() { if err := r__.Close(); err != nil { slog.ErrorContext(...) } }()
CloseIncoming ==
  /\ pc = "closeR"
  /\ \E failed \in BOOLEAN : rCloseErr' = failed
  /\ calls' = Append(calls, "r.Close")
  /\ pc' = "done"
  /\ UNCHANGED <<i, s, x, buf, r0, err, rdBytes, readN, readErr, eod, wCloseErr, rbErr, exit>>

Next ==
  \/ Invoke
  \/ CloseOutgoing
  \/ ReadLengthByte
  \/ ReadBody
  \/ ReturnResult
  \/ CloseIncoming

Spec == Init /\ [][Next]_vars

TypeOK ==
  /\ pc \in {"start", "closeW", "loop", "body", "ret", "closeR", "done"}
  /\ i \in 0..MaxLenBytes
  /\ s \in 0..255
  /\ x \in [hi : 0..(Half - 1), lo : 0..(Half - 1)]
  /\ readN \in -1..MaxBody
  /\ rbErr \in {NoErr} \cup ReadErrs
  /\ exit \in {"none", "invoke", "lenbyte", "overflow", "fallthrough", "body", "utf8", "ok"}

\* ------------------------------------------------------------ the properties

\* how often a call occurs in a sequence of calls
CountOf(sq, c) == Cardinality({k \in 1..Len(sq) : sq[k] = c})
\* Invoke returned no error
InvokeSucceeded == pc # "start" /\ (err = Nil \/ err[1] # MsgInvoke)
\* Hello has returned
Returned == pc = "done"
\* the body Read has been made
BodyWasRead == readN >= 0

\* C1: when Invoke succeeds, Close is called on the incoming stream exactly
\* once before Hello returns, whatever the exit path: it is never called
\* twice, and once Hello has returned it has been called once, as the last call.
IncomingClosedOnce ==
  /\ CountOf(calls, "r.Close") <= 1
  /\ (Returned /\ InvokeSucceeded) =>
        /\ CountOf(calls, "r.Close") = 1
        /\ calls[Len(calls)] = "r.Close"

\* Hello returned the UTF-8 validation failure and closed the incoming stream
IncomingClosedAfterUtf8Failure ==
  /\ Returned
  /\ err = <<MsgResult0, MsgUtf8>>
  /\ CountOf(calls, "r.Close") = 1

\* C2: whenever the body Read returns fewer bytes than the decoded length x,
\* with or without an error, Hello returns a "failed to read string bytes"
\* error.
ShortBodyReadFails ==
  (Returned /\ BodyWasRead /\ ~IsFull(buf)) =>
     /\ Len(err) >= 2
     /\ err[1] = MsgResult0
     /\ err[2] = MsgBody

BitAt(v, k) == IF k < 16 THEN BitOf(v.lo, k) ELSE IF k < 32 THEN BitOf(v.hi, k - 16) ELSE 0
Group(v, j) ==
  BitAt(v, 7 * j) + 2 * BitAt(v, 7 * j + 1) + 4 * BitAt(v, 7 * j + 2)
    + 8 * BitAt(v, 7 * j + 3) + 16 * BitAt(v, 7 * j + 4)
    + 32 * BitAt(v, 7 * j + 5) + 64 * BitAt(v, 7 * j + 6)
TopGroup(v) ==
  IF \E j \in 0..4 : Group(v, j) # 0
  THEN CHOOSE j \in 0..4 : Group(v, j) # 0 /\ \A k \in (j + 1)..4 : Group(v, k) = 0
  ELSE 0
Encode(v) ==
  [j \in 1..(TopGroup(v) + 1) |->
     Group(v, j - 1) + IF j - 1 < TopGroup(v) THEN 128 ELSE 0]

\* Lengths of every encoded size, 1 to 5 bytes, the least and the greatest
\* of the range among them.
RoundTripValues ==
  {U32FromNat(n) : n \in {0, 1, 2, 15, 16, 127, 128, 255, 256, 16383, 16384,
                          2097151, 2097152, 268435455, 268435456, 536870912}}
    \cup {U32Max, [hi |-> 61440, lo |-> 0], [hi |-> 65535, lo |-> 65408]}

\* each of these lengths with its encoding
Encoded == {[value |-> v, bytes |-> Encode(v)] : v \in RoundTripValues}

\* C4: for every x in [0, 2^32-1], once the length loop has been fed the
\* canonical encoding of x it has ended without a failure, the accumulator
\* is exactly x and the body buffer allocated has length x.
VarintRoundTrip ==
  \A e \in Encoded :
     rdBytes = e.bytes =>
        /\ pc \in {"body", "ret", "closeR", "done"}
        /\ x = e.value
        /\ buf.len = e.value
        /\ (pc = "body" => err = Nil)
        /\ \A k \in 1..Len(err) : err[k] \notin {MsgLenByte, MsgOverflow}

\* the five bytes that encode 2^32-1 were read and decoded to 2^32-1
MaxLengthDecoded ==
  /\ rdBytes = <<255, 255, 255, 255, 15>>
  /\ [value |-> U32Max, bytes |-> rdBytes] \in Encoded
  /\ x = U32Max
  /\ pc = "body"

\* ReadByte reported end-of-data after at least one continuation byte
EndOfDataInLength == eod /\ ~BodyWasRead /\ Len(rdBytes) >= 1

\* C5: if the incoming stream reports end-of-data after at least one length
\* byte with the continuation bit set and before a terminating byte, decoding
\* fails with io.ErrUnexpectedEOF wrapped as "failed to read string length
\* byte"; no length is accepted and no string returned.
TruncatedLengthFails ==
  EndOfDataInLength =>
     /\ pc \in {"ret", "closeR", "done"}
     /\ r0 = EmptyString
     /\ err \in {<<MsgLenByte, ErrUnexpectedEOF>>,
                 <<MsgResult0, MsgLenByte, ErrUnexpectedEOF>>}
     /\ (Returned => err = <<MsgResult0, MsgLenByte, ErrUnexpectedEOF>>)
     /\ CountOf(calls, "r.Read") = 0

\* Hello returned after the stream ended behind two continuation bytes
TruncatedAfterTwoBytes ==
  /\ Returned
  /\ rdBytes = <<255, 128>>
  /\ EndOfDataInLength
  /\ err = <<MsgResult0, MsgLenByte, ErrUnexpectedEOF>>

\* five length bytes were read and the payload of the fifth exceeds 0x0f
FifthByteTooLarge == Len(rdBytes) = 5 /\ And7f(rdBytes[5]) > 15

\* C6: for every prefix whose first four bytes have the continuation bit set,
\* a fifth byte whose payload exceeds 0x0f makes decoding fail with the
\* 32-bit overflow error, with the continuation bit of the fifth byte set or
\* clear, and no body bytes are read.
FifthByteOverflowFails ==
  FifthByteTooLarge =>
     /\ pc \in {"ret", "closeR", "done"}
     /\ err \in {<<MsgOverflow>>, <<MsgResult0, MsgOverflow>>}
     /\ (Returned => err = <<MsgResult0, MsgOverflow>>)
     /\ CountOf(calls, "r.Read") = 0
     /\ ~BodyWasRead

\* Hello returned the overflow error for a fifth byte 0x10, whose
\* continuation bit is clear
FifthByteClearOverflowed ==
  /\ Returned
  /\ Len(rdBytes) = 5
  /\ rdBytes[5] = 16
  /\ err = <<MsgResult0, MsgOverflow>>

\* C7: when the prefix decodes to x and the x body bytes are read but are
\* not valid UTF-8, Hello returns the error "string is not valid UTF-8"
\* wrapped as "failed to read result 0", and the string it returns with the
\* error is the x bytes read.
InvalidUtf8ReturnsRawBytes ==
  (Returned /\ BodyWasRead /\ readErr = NoErr /\ IsFull(buf) /\ ~Utf8Valid(buf)) =>
     /\ err = <<MsgResult0, MsgUtf8>>
     /\ r0.data = buf.data
     /\ r0.len = x
     /\ U32Is(r0.len, readN)

\* Hello returned a lone continuation byte 0x80 with the validation error
LoneContinuationReturned ==
  /\ Returned
  /\ rdBytes = <<1>>
  /\ readErr = NoErr
  /\ r0.data = <<128>>
  /\ err = <<MsgResult0, MsgUtf8>>

\* C8: on every failure path of Hello the returned string is the empty
\* string: Hello never returns a non-nil error with a non-empty string.
FailureReturnsEmptyString ==
  (Returned /\ err # Nil) => r0 = EmptyString

\* C8, amended: on the failure paths other than the UTF-8 validation failure
\* (invoke failure, length-byte read failure, overflow, body read failure)
\* the error is non-nil and the returned string is empty; on the UTF-8
\* validation failure the error is non-nil and the string is the bytes read;
\* a non-empty string is returned only with a nil error or with the UTF-8
\* validation error.
FailureReturnsEmptyUnlessInvalidUtf8 ==
  Returned =>
     /\ ~BodyWasRead => (err # Nil /\ r0 = EmptyString)
     /\ (BodyWasRead /\ readErr # NoErr) => (err # Nil /\ r0 = EmptyString)
     /\ (BodyWasRead /\ readErr = NoErr /\ ~Utf8Valid(buf)) =>
           (err = <<MsgResult0, MsgUtf8>> /\ r0 = buf)
     /\ (err # Nil /\ err # <<MsgResult0, MsgUtf8>>) => r0 = EmptyString
     /\ r0 # EmptyString => err \in {Nil, <<MsgResult0, MsgUtf8>>}

\* Hello returned the empty string with the error of a body Read that had
\* stored a byte before it failed
BodyReadFailedAfterOneByte ==
  /\ Returned
  /\ readN = 1
  /\ readErr = Canceled
  /\ err = <<MsgResult0, MsgBody, Canceled>>
  /\ r0 = EmptyString

\* C9: when the incoming stream is the single byte 0x00 followed by
\* end-of-data, Hello returns the empty string with a nil error after one
\* ReadByte, whether the zero-length Read at end-of-data returns no error or
\* end-of-data.
ZeroLengthDecodes ==
  (Returned /\ rdBytes = <<0>> /\ readN = 0 /\ eod /\ readErr \in {NoErr, EOF}) =>
     /\ err = Nil
     /\ r0 = EmptyString
     /\ CountOf(calls, "r.ReadByte") = 1

\* the calls on the incoming stream
IncomingCalls == {"r.ReadByte", "r.Read", "r.Close"}
\* C10: the outgoing stream is closed exactly once and nothing else is done
\* to it, after Invoke succeeded, before the first read of the incoming
\* stream and before its close, also when the outgoing Close returns an error.
OutgoingClosedFirst ==
  /\ CountOf(calls, "w.Close") <= 1
  /\ \A k \in 1..Len(calls) : calls[k] \in {"Invoke", "w.Close"} \cup IncomingCalls
  /\ \A k \in 1..Len(calls) :
        calls[k] = "w.Close" => (k = 2 /\ calls[1] = "Invoke" /\ InvokeSucceeded)
  /\ \A k \in 1..Len(calls) :
        calls[k] \in IncomingCalls => \E j \in 1..(k - 1) : calls[j] = "w.Close"
  /\ (InvokeSucceeded /\ pc # "closeW") => CountOf(calls, "w.Close") = 1

\* Hello returned after an outgoing Close that failed and reads that followed it
OutgoingCloseFailedThenRead ==
  /\ Returned
  /\ wCloseErr
  /\ calls = <<"Invoke", "w.Close", "r.ReadByte", "r.Read", "r.Close">>

\* C11: in every execution at most 5 ReadByte calls are made on the incoming
\* stream for one length prefix, whatever bytes the stream delivers.
AtMostFiveLengthReads ==
  /\ CountOf(calls, "r.ReadByte") <= 5
  /\ Len(rdBytes) <= 5

\* Hello returned after five ReadByte calls
FiveLengthReadsMade ==
  /\ Returned
  /\ CountOf(calls, "r.ReadByte") = 5
  /\ Len(rdBytes) = 5

\* C12: close errors never change the call's outcome: the close of the
\* outgoing stream, failed or not, leaves the string and the error as they
\* are and is followed by the decoding; the close of the incoming stream,
\* failed or not, leaves the string and the error as they are and is followed
\* by the return.
CloseErrorsNotEscalated ==
  [][/\ pc = "closeW" => (pc' = "loop" /\ r0' = r0 /\ err' = err /\ exit' = exit)
     /\ pc = "closeR" => (pc' = "done" /\ r0' = r0 /\ err' = err /\ exit' = exit)]_vars

\* Hello returned a decoded string with a nil error after both closes failed
DecodedAfterBothClosesFailed ==
  /\ Returned
  /\ wCloseErr
  /\ rCloseErr
  /\ exit = "ok"
  /\ r0.data = <<104>>
  /\ err = Nil

\* C13: when Invoke returns an error, Hello returns at once with that error
\* wrapped as "failed to invoke hello", having made no Close, ReadByte or
\* Read on either stream.
InvokeFailureReturnsAtOnce ==
  exit = "invoke" =>
     /\ pc = "done"
     /\ err = <<MsgInvoke, InvokeFailure>>
     /\ r0 = EmptyString
     /\ calls = <<"Invoke">>

\* Hello returned the wrapped error of a failed Invoke
InvokeFailed ==
  /\ Returned
  /\ exit = "invoke"
  /\ err = <<MsgInvoke, InvokeFailure>>

\* the error a failed ReadByte makes the decoder return, with the cause c,
\* before and after Hello wrapped it
LenByteErrors(c) == {<<MsgLenByte, c>>, <<MsgResult0, MsgLenByte, c>>}

\* C14: any ReadByte failure at loop iteration > 0, whatever its cause, is
\* reported as the truncated-stream error io.ErrUnexpectedEOF.
LateReadFailureIsTruncation ==
  (exit = "lenbyte" /\ i > 0) => err \in LenByteErrors(ErrUnexpectedEOF)

\* C14, amended: a ReadByte failure at loop iteration > 0 whose cause is
\* end-of-data (io.EOF) is reported as the truncated-stream error
\* io.ErrUnexpectedEOF; a failure with any other cause is reported with its
\* cause unchanged.
LateEndOfDataIsTruncation ==
  (exit = "lenbyte" /\ i > 0) =>
     /\ rbErr = EOF => err \in LenByteErrors(ErrUnexpectedEOF)
     /\ rbErr # EOF => err \in LenByteErrors(rbErr)
     /\ Returned => err[1] = MsgResult0

\* Hello returned the cancellation a ReadByte reported after one length byte
LateCancellationReturned ==
  /\ Returned
  /\ exit = "lenbyte"
  /\ i = 1
  /\ rbErr = Canceled
  /\ err = <<MsgResult0, MsgLenByte, Canceled>>

\* C15: a ReadByte failure at loop iteration 0 is reported with its cause
\* unchanged: on an empty incoming stream Hello fails with io.EOF as the
\* wrapped cause, not with the truncation error, and returns no string.
FirstReadFailureIsUnchanged ==
  (exit = "lenbyte" /\ i = 0) =>
     /\ rdBytes = <<>>
     /\ r0 = EmptyString
     /\ err \in LenByteErrors(rbErr)
     /\ rbErr \in ReadErrs
     /\ Returned => err = <<MsgResult0, MsgLenByte, rbErr>>

\* Hello returned io.EOF for an incoming stream that held no byte
EmptyStreamReturnedEndOfData ==
  /\ Returned
  /\ rdBytes = <<>>
  /\ eod
  /\ rbErr = EOF
  /\ err = <<MsgResult0, MsgLenByte, EOF>>

\* the length loop ended at a last byte: the prefix was accepted
LengthAccepted == pc = "body" \/ BodyWasRead

\* The sum over k of (bs[k] mod 128) * 2^(7*(k-1)), as a number of two parts,
\* hi * 2^16 + lo, with lo below 2^16 and hi as large as the sum makes it.
RECURSIVE LowPart(_, _)
LowPart(bs, k) ==
  IF k > Len(bs) THEN 0
  ELSE (IF 7 * (k - 1) < 16 THEN (bs[k] % 128) * Pow2(7 * (k - 1)) ELSE 0)
         + LowPart(bs, k + 1)
RECURSIVE HighPart(_, _)
HighPart(bs, k) ==
  IF k > Len(bs) THEN 0
  ELSE (IF 7 * (k - 1) >= 16 THEN (bs[k] % 128) * Pow2(7 * (k - 1) - 16) ELSE 0)
         + HighPart(bs, k + 1)
PayloadSum(bs) ==
  [hi |-> HighPart(bs, 1) + LowPart(bs, 1) \div Half, lo |-> LowPart(bs, 1) % Half]

\* C16: for every byte sequence b_0..b_k (k <= 4) the length decoder
\* accepts, the decoded length is the sum over i of (b_i mod 128) * 2^(7*i)
\* and is at most 2^32-1: no payload bit is lost in the 32-bit accumulator.
DecodedLengthIsPayloadSum ==
  LengthAccepted =>
     /\ Len(rdBytes) \in 1..5
     /\ PayloadSum(rdBytes).hi < Half
     /\ x = PayloadSum(rdBytes)
     /\ buf.len = x

\* the five bytes 80 80 80 80 0f were accepted as the length 0xF0000000
TopBitsDecoded ==
  /\ LengthAccepted
  /\ rdBytes = <<128, 128, 128, 128, 15>>
  /\ x = [hi |-> 61440, lo |-> 0]

\* C17: the length loop never completes its 5 iterations: at shift 28 the
\* fifth byte either ends the decoding (b <= 0x0f) or fails with the
\* overflow error inside the loop, so the overflow return after the loop is
\* never taken.
LoopNeverFallsThrough ==
  /\ exit # "fallthrough"
  /\ i < 5
  /\ Len(rdBytes) = 5 =>
        \/ rdBytes[5] <= 15 /\ LengthAccepted
        \/ rdBytes[5] > 15 /\ exit = "overflow" /\ i = 4 /\ s = 28

\* a fifth byte 0x80, with no payload bit set, failed inside the loop
FifthContinuationByteOverflowed ==
  /\ Returned
  /\ exit = "overflow"
  /\ Len(rdBytes) = 5
  /\ rdBytes[5] = 128
  /\ i = 4

\* a prefix of 2 to 5 bytes that ends in a zero byte after continuation
\* bytes: its last group, at least, is padding
Padded(bs) ==
  /\ Len(bs) \in 2..5
  /\ bs[Len(bs)] = 0
  /\ \A k \in 1..(Len(bs) - 1) : bs[k] >= 128
\* the last group of bs that is not zero, the first group if all are zero
LastGroup(bs) ==
  IF \E k \in 1..Len(bs) : bs[k] % 128 # 0
  THEN CHOOSE k \in 1..Len(bs) :
         bs[k] % 128 # 0 /\ \A j \in (k + 1)..Len(bs) : bs[j] % 128 = 0
  ELSE 1
\* bs without its padding groups: the canonical prefix of the same payload
Unpadded(bs) ==
  [k \in 1..LastGroup(bs) |-> (bs[k] % 128) + IF k < LastGroup(bs) THEN 128 ELSE 0]

\* C18: the length decoder accepts non-minimal encodings: a prefix padded
\* with zero-payload groups is accepted and decodes to the length whose
\* canonical encoding is the prefix without the padding, a different prefix
\* that decodes to the same length.
PaddedPrefixAccepted ==
  Padded(rdBytes) =>
     /\ LengthAccepted
     /\ exit \notin {"lenbyte", "overflow", "fallthrough"}
     /\ Encode(x) = Unpadded(rdBytes)
     /\ Unpadded(rdBytes) # rdBytes
     /\ x = PayloadSum(Unpadded(rdBytes))

\* the padded prefix ff 80 00 was accepted as the length 127, which the
\* single byte 7f encodes
PaddedPrefixDecoded ==
  /\ LengthAccepted
  /\ rdBytes = <<255, 128, 0>>
  /\ x = U32FromNat(127)
  /\ Unpadded(rdBytes) = <<127>>

====
